---- MODULE Spec2Model ----
(***************************************************************************)
(* Model of batchprocessor.py: BatchProcessor.get_batches (a lazy          *)
(* generator grouping an iterable into lists of batch_size items) and      *)
(* BatchProcessor.process (the sequential loop that calls func on each     *)
(* batch under a retry policy, accumulates results and optionally writes   *)
(* each batch's result to a JSON file).                                    *)
(*                                                                         *)
(* One run of process is modelled step by step: every pull of an item by   *)
(* the generator, every invocation of func and every end-of-batch block    *)
(* (lines 74-79) is one action.  func, the file system and the source are  *)
(* the environment: func either returns a value of Results or raises, and  *)
(* opening the batch file either works or raises OSError.  The variable    *)
(* trace is a history of the observable events of the run (items pulled,   *)
(* batches yielded, func invocations, prints, sleeps, file writes).        *)
(***************************************************************************)
EXTENDS Integers, Sequences, FiniteSets, TLC

VARIABLES
    iterable,      \* self.iterable: the input sequence
    batch_size,    \* self.batch_size
    progress,      \* self.progress
    save_to_file,  \* self.save_to_file: None or <<file_name, ext>>
    retries,       \* self.retries
    retry_delay,   \* self.retry_delay
    style,         \* how the caller runs the processor: "direct" | "decorator"
    opts,          \* the options the caller wrote, as a record
    pos,           \* number of items the generator has pulled from iterable
    batch,         \* get_batches' local list `batch`
    genpc,         \* where the suspended generator resumes: "loop" | "tail"
    bar_n,         \* tqdm's counter of batches handed to the loop
    next_i,        \* enumerate's counter: index of the next batch
    cur,           \* process' loop variable `batch`
    attempt,       \* process' loop variable `attempt`
    success,       \* process' local `success`
    result,        \* process' local `result` (Unbound until first assigned)
    results,       \* process' local `results`
    pc,            \* position of process
    err,           \* the exception process raised, if any
    files,         \* the file system: set of <<name, content>>
    trace          \* history of observable events

vars == <<iterable, batch_size, progress, save_to_file, retries, retry_delay,
          style, opts,
          pos, batch, genpc, bar_n, next_i, cur, attempt, success, result,
          results, pc, err, files, trace>>

config == <<iterable, batch_size, progress, save_to_file, retries, retry_delay,
            style, opts>>

----------------------------------------------------------------------------
(* Bounds of the model *)

MaxLen == 3
MaxBatchSize == 3
MaxRetries == 2

(* Values of the environment *)

None == <<>>
Unbound == "<unbound>"
Raise == "<raise>"
NoVal == "-"
Results == {"r1", "r2"}
SaveTargets == {None, <<"output", ".json">>}
RetryDelays == {1}
BatchSizes == (-1)..MaxBatchSize

\* range(1, L + 1), the shape of the source of example.py
Range1(L) == [k \in 1..L |-> k]

\* the two ways of running: BatchProcessor(...).process(func), or
\* batch_process(...)(func)(iterable)
Styles == {"direct", "decorator"}

\* the options a caller can write
Options ==
    [iterable : {Range1(L) : L \in 0..MaxLen},
     batch_size : BatchSizes,
     progress : BOOLEAN,
     save_to_file : SaveTargets,
     retries : 0..MaxRetries,
     retry_delay : RetryDelays]

----------------------------------------------------------------------------
(* History events *)

\* ev: kind of event; b: 1-based batch number; n: attempt number, item,
\* delay or retry count; v: value returned or written; items: batch yielded
EvB(e, b, n, v, items) == [ev |-> e, b |-> b, n |-> n, v |-> v, items |-> items]

Ev(e, b, n, v) == EvB(e, b, n, v, <<>>)

\* the 0-based index of the batch the loop body of process is working on
i == next_i - 1

----------------------------------------------------------------------------
\* BatchProcessor.__init__, lines 30-35: the fields of the new processor
BatchProcessor(it, bs, pr, sf, re, rd) ==
    [iterable |-> it, batch_size |-> bs, progress |-> pr,
     save_to_file |-> sf, retries |-> re, retry_delay |-> rd]

\* wrapper with the default of __init__ (retries = 0) in place of the option
wrapper_DefaultRetries(o) ==
    BatchProcessor(o.iterable, o.batch_size, o.progress, o.save_to_file,
                   0, o.retry_delay)

\* batch_process, lines 115-122: the processor the wrapper constructs from
\* its argument and the options captured by the decorator
wrapper(o) ==
    BatchProcessor(o.iterable, o.batch_size, o.progress, o.save_to_file,
                   o.retries, o.retry_delay)

\* the state after the processor is constructed, by the caller or by the
\* wrapper, and before process is called on it
Init ==
    /\ opts \in Options
    /\ style \in Styles
    /\ LET processor ==
            IF style = "decorator"
            THEN wrapper(opts)
            ELSE BatchProcessor(opts.iterable, opts.batch_size, opts.progress,
                                opts.save_to_file, opts.retries,
                                opts.retry_delay)
       IN  /\ iterable = processor.iterable
           /\ batch_size = processor.batch_size
           /\ progress = processor.progress
           /\ save_to_file = processor.save_to_file
           /\ retries = processor.retries
           /\ retry_delay = processor.retry_delay
    /\ pos = 0
    /\ batch = <<>>
    /\ genpc = "loop"
    /\ bar_n = 0
    /\ next_i = 0
    /\ cur = <<>>
    /\ attempt = 0
    /\ success = FALSE
    /\ result = Unbound
    /\ results = <<>>
    /\ pc = "init"
    /\ err = NoVal
    /\ files = {}
    /\ trace = <<>>

\* process, lines 56-59 (called by the caller, or by wrapper at line 123):
\* results = [], the generator is created, not started
Process ==
    /\ pc = "init"
    /\ pc' = "gen"
    /\ results' = <<>>
    /\ UNCHANGED <<config, pos, batch, genpc, bar_n, next_i, cur, attempt,
                   success, result, err, files, trace>>

\* EnterBody keeping the attempt counter of the batch before
EnterBody_NoReset(b, tr) ==
    /\ cur' = b
    /\ next_i' = next_i + 1
    /\ bar_n' = IF progress THEN bar_n + 1 ELSE bar_n
    /\ success' = FALSE
    /\ attempt' = attempt
    /\ pc' = IF retries + 1 > 0 THEN "attempt" ELSE "check"
    /\ trace' = Append(tr, EvB("yield", next_i + 1, Len(b), NoVal, b))

\* the loop of process receives batch b from the generator (through tqdm
\* and enumerate) and enters its body: success = False, attempt = 0
EnterBody(b, tr) ==
    /\ cur' = b
    /\ next_i' = next_i + 1
    /\ bar_n' = IF progress THEN bar_n + 1 ELSE bar_n
    /\ success' = FALSE
    /\ attempt' = 0
    /\ pc' = IF retries + 1 > 0 THEN "attempt" ELSE "check"
    /\ trace' = Append(tr, EvB("yield", next_i + 1, Len(b), NoVal, b))

\* GenPull over a source read whole into a list before the grouping
GenPull_Eager ==
    /\ pc = "gen" /\ genpc = "loop"
    /\ pos < Len(iterable)
    /\ Len(Append(batch, iterable[pos + 1])) # batch_size
    /\ pos' = Len(iterable)
    /\ batch' = Append(batch, iterable[pos + 1])
    /\ trace' = Append(trace, Ev("pull", next_i + 1, iterable[pos + 1], NoVal))
    /\ UNCHANGED <<config, genpc, bar_n, next_i, cur, attempt, success,
                   result, results, pc, err, files>>

\* get_batches, lines 40-42: one item is pulled, the batch is not full
GenPull ==
    /\ pc = "gen" /\ genpc = "loop"
    /\ pos < Len(iterable)
    /\ Len(Append(batch, iterable[pos + 1])) # batch_size
    /\ pos' = pos + 1
    /\ batch' = Append(batch, iterable[pos + 1])
    /\ trace' = Append(trace, Ev("pull", next_i + 1, iterable[pos + 1], NoVal))
    /\ UNCHANGED <<config, genpc, bar_n, next_i, cur, attempt, success,
                   result, results, pc, err, files>>

\* GenPullYield without `batch = []` after the yield
GenPullYield_NoReset ==
    /\ pc = "gen" /\ genpc = "loop"
    /\ pos < Len(iterable)
    /\ Len(Append(batch, iterable[pos + 1])) = batch_size
    /\ pos' = pos + 1
    /\ batch' = Append(batch, iterable[pos + 1])
    /\ EnterBody(Append(batch, iterable[pos + 1]),
                 Append(trace, Ev("pull", next_i + 1, iterable[pos + 1], NoVal)))
    /\ UNCHANGED <<config, genpc, result, results, err, files>>

\* get_batches, lines 40-44: the item pulled fills the batch, it is yielded
GenPullYield ==
    /\ pc = "gen" /\ genpc = "loop"
    /\ pos < Len(iterable)
    /\ Len(Append(batch, iterable[pos + 1])) = batch_size
    /\ pos' = pos + 1
    /\ batch' = <<>>
    /\ EnterBody(Append(batch, iterable[pos + 1]),
                 Append(trace, Ev("pull", next_i + 1, iterable[pos + 1], NoVal)))
    /\ UNCHANGED <<config, genpc, result, results, err, files>>

\* GenTailYield without lines 45-46: the rest is dropped, the generator ends
GenTailYield_Dropped ==
    /\ pc = "gen" /\ genpc = "loop"
    /\ pos = Len(iterable)
    /\ batch # <<>>
    /\ pc' = "returned"
    /\ trace' = Append(trace, Ev("complete", next_i, 0, NoVal))
    /\ UNCHANGED <<config, pos, batch, genpc, bar_n, next_i, cur, attempt,
                   success, result, results, err, files>>

\* get_batches, lines 45-46: the source is exhausted, the rest is yielded
GenTailYield ==
    /\ pc = "gen" /\ genpc = "loop"
    /\ pos = Len(iterable)
    /\ batch # <<>>
    /\ genpc' = "tail"
    /\ EnterBody(batch, trace)
    /\ UNCHANGED <<config, pos, batch, result, results, err, files>>

\* the generator returns; process, lines 81-82: print and return results
GenReturn ==
    /\ pc = "gen"
    /\ \/ genpc = "tail"
       \/ genpc = "loop" /\ pos = Len(iterable) /\ batch = <<>>
    /\ pc' = "returned"
    /\ trace' = Append(trace, Ev("complete", next_i, 0, NoVal))
    /\ UNCHANGED <<config, pos, batch, genpc, bar_n, next_i, cur, attempt,
                   success, result, results, err, files>>

\* AttemptSuccess without the `break`
AttemptSuccess_NoBreak ==
    /\ pc = "attempt"
    /\ \E v \in Results :
        /\ result' = v
        /\ results' = Append(results, v)
        /\ trace' = Append(trace, Ev("invoke", i + 1, attempt + 1, v))
    /\ success' = TRUE
    /\ IF attempt + 1 < retries + 1
       THEN attempt' = attempt + 1 /\ pc' = "attempt"
       ELSE attempt' = attempt /\ pc' = "check"
    /\ UNCHANGED <<config, pos, batch, genpc, bar_n, next_i, cur,
                   err, files>>

\* process, lines 64-69: func returns v
AttemptSuccess ==
    /\ pc = "attempt"
    /\ \E v \in Results :
        /\ result' = v
        /\ results' = Append(results, v)
        /\ trace' = Append(trace, Ev("invoke", i + 1, attempt + 1, v))
    /\ success' = TRUE
    /\ pc' = "check"
    /\ UNCHANGED <<config, pos, batch, genpc, bar_n, next_i, cur, attempt,
                   err, files>>

\* AttemptFailure with range(self.retries) in place of range(self.retries + 1)
AttemptFailure_OffByOne ==
    /\ pc = "attempt"
    /\ trace' = trace \o <<Ev("invoke", i + 1, attempt + 1, Raise),
                           Ev("error", i + 1, attempt + 1, NoVal),
                           Ev("sleep", i + 1, retry_delay, NoVal)>>
    /\ IF attempt + 1 < retries
       THEN attempt' = attempt + 1 /\ pc' = "attempt"
       ELSE attempt' = attempt /\ pc' = "check"
    /\ UNCHANGED <<config, pos, batch, genpc, bar_n, next_i, cur, success,
                   result, results, err, files>>

\* AttemptFailure without the time.sleep
AttemptFailure_NoSleep ==
    /\ pc = "attempt"
    /\ trace' = trace \o <<Ev("invoke", i + 1, attempt + 1, Raise),
                           Ev("error", i + 1, attempt + 1, NoVal)>>
    /\ IF attempt + 1 < retries + 1
       THEN attempt' = attempt + 1 /\ pc' = "attempt"
       ELSE attempt' = attempt /\ pc' = "check"
    /\ UNCHANGED <<config, pos, batch, genpc, bar_n, next_i, cur, success,
                   result, results, err, files>>

\* AttemptFailure appending a placeholder to results
AttemptFailure_Placeholder ==
    /\ pc = "attempt"
    /\ trace' = trace \o <<Ev("invoke", i + 1, attempt + 1, Raise),
                           Ev("error", i + 1, attempt + 1, NoVal),
                           Ev("sleep", i + 1, retry_delay, NoVal)>>
    /\ results' = IF attempt + 1 < retries + 1 THEN results
                  ELSE Append(results, NoVal)
    /\ IF attempt + 1 < retries + 1
       THEN attempt' = attempt + 1 /\ pc' = "attempt"
       ELSE attempt' = attempt /\ pc' = "check"
    /\ UNCHANGED <<config, pos, batch, genpc, bar_n, next_i, cur, success,
                   result, err, files>>

\* AttemptFailure sleeping only when another attempt follows
AttemptFailure_NoSleepOnLast ==
    /\ pc = "attempt"
    /\ trace' = trace \o <<Ev("invoke", i + 1, attempt + 1, Raise),
                           Ev("error", i + 1, attempt + 1, NoVal)>>
                     \o (IF attempt + 1 < retries + 1
                         THEN <<Ev("sleep", i + 1, retry_delay, NoVal)>>
                         ELSE <<>>)
    /\ IF attempt + 1 < retries + 1
       THEN attempt' = attempt + 1 /\ pc' = "attempt"
       ELSE attempt' = attempt /\ pc' = "check"
    /\ UNCHANGED <<config, pos, batch, genpc, bar_n, next_i, cur, success,
                   result, results, err, files>>

\* process, lines 64-66, 70-72: func raises; report, sleep, next attempt
AttemptFailure ==
    /\ pc = "attempt"
    /\ trace' = trace \o <<Ev("invoke", i + 1, attempt + 1, Raise),
                           Ev("error", i + 1, attempt + 1, NoVal),
                           Ev("sleep", i + 1, retry_delay, NoVal)>>
    /\ IF attempt + 1 < retries + 1
       THEN attempt' = attempt + 1 /\ pc' = "attempt"
       ELSE attempt' = attempt /\ pc' = "check"
    /\ UNCHANGED <<config, pos, batch, genpc, bar_n, next_i, cur, success,
                   result, results, err, files>>

\* process, lines 74-75: the report of a batch that exhausted its attempts
FailDiag(tr) ==
    IF ~success THEN Append(tr, Ev("failed", i + 1, retries, NoVal)) ELSE tr

\* BatchFile with a name that leaves the batch number out
BatchFile_NoIndex(batch_number) ==
    <<save_to_file[1], "_batch", 0, save_to_file[2]>>

\* _save_to_file, lines 86-87
BatchFile(batch_number) ==
    <<save_to_file[1], "_batch", batch_number, save_to_file[2]>>

\* _save_to_file, lines 88-89: open(batch_file, "w") and json.dump
WriteFile(fs, name, content) ==
    {f \in fs : f[1] # name} \cup {<<name, content>>}

\* process, lines 74-78: end of the body, no file to save to
AfterBatchNoSave ==
    /\ pc = "check"
    /\ save_to_file = None
    /\ trace' = FailDiag(trace)
    /\ pc' = "gen"
    /\ UNCHANGED <<config, pos, batch, genpc, bar_n, next_i, cur, attempt,
                   success, result, results, err, files>>

\* AfterBatchSave numbering the file by the count of results
AfterBatchSave_RankIndex ==
    /\ pc = "check"
    /\ save_to_file # None
    /\ result # Unbound
    /\ files' = WriteFile(files, BatchFile(Len(results)), result)
    /\ trace' = Append(FailDiag(trace), Ev("save", Len(results), 0, result))
    /\ pc' = "gen"
    /\ UNCHANGED <<config, pos, batch, genpc, bar_n, next_i, cur, attempt,
                   success, result, results, err>>

\* AfterBatchSave writing a null for a batch that failed
AfterBatchSave_NullForFailed ==
    /\ pc = "check"
    /\ save_to_file # None
    /\ result # Unbound
    /\ LET content == IF success THEN result ELSE NoVal
       IN  /\ files' = WriteFile(files, BatchFile(i + 1), content)
           /\ trace' = Append(FailDiag(trace), Ev("save", i + 1, 0, content))
    /\ pc' = "gen"
    /\ UNCHANGED <<config, pos, batch, genpc, bar_n, next_i, cur, attempt,
                   success, result, results, err>>

\* process, lines 74-79 and _save_to_file: result is written to the file
AfterBatchSave ==
    /\ pc = "check"
    /\ save_to_file # None
    /\ result # Unbound
    /\ files' = WriteFile(files, BatchFile(i + 1), result)
    /\ trace' = Append(FailDiag(trace), Ev("save", i + 1, 0, result))
    /\ pc' = "gen"
    /\ UNCHANGED <<config, pos, batch, genpc, bar_n, next_i, cur, attempt,
                   success, result, results, err>>

\* process, lines 74-79 and _save_to_file, line 88: open raises
AfterBatchSaveError ==
    /\ pc = "check"
    /\ save_to_file # None
    /\ result # Unbound
    /\ trace' = Append(FailDiag(trace), Ev("save_error", i + 1, 0, result))
    /\ pc' = "raised"
    /\ err' = "OSError"
    /\ UNCHANGED <<config, pos, batch, genpc, bar_n, next_i, cur, attempt,
                   success, result, results, files>>

\* process, line 79: result was never assigned, reading it raises
AfterBatchUnbound ==
    /\ pc = "check"
    /\ save_to_file # None
    /\ result = Unbound
    /\ trace' = FailDiag(trace)
    /\ pc' = "raised"
    /\ err' = "UnboundLocalError"
    /\ UNCHANGED <<config, pos, batch, genpc, bar_n, next_i, cur, attempt,
                   success, result, results, files>>

Next ==
    \/ Process
    \/ GenPull
    \/ GenPullYield
    \/ GenTailYield
    \/ GenReturn
    \/ AttemptSuccess
    \/ AttemptFailure
    \/ AfterBatchNoSave
    \/ AfterBatchSave
    \/ AfterBatchSaveError
    \/ AfterBatchUnbound

Spec == Init /\ [][Next]_vars

\* process is one thread of control that runs on until it returns or raises
FairSpec == Spec /\ WF_vars(Next)

----------------------------------------------------------------------------
(* Reading the history *)

\* positions of the events of kind e about batch k
At(e, k) == {j \in DOMAIN trace : trace[j].ev = e /\ trace[j].b = k}

\* positions of the invocations of func on batch k
Invokes(k) == At("invoke", k)

\* positions of the invocations of func on batch k that returned
Returns(k) == {j \in Invokes(k) : trace[j].v # Raise}

Succeeded(k) == Returns(k) # {}

\* the batches handed to the loop of process so far
Started == 1..next_i

\* the retry loop of batch k is over (line 74 reached)
LoopOver(k) == k < next_i \/ (k = next_i /\ pc # "attempt")

\* the body of the loop of process is over for batch k (line 79 passed)
BodyOver(k) == k < next_i \/ (k = next_i /\ pc \in {"gen", "returned"})

\* every attempt on batch k failed
Exhausted(k) == k \in Started /\ LoopOver(k) /\ ~Succeeded(k)

Terminated == pc \in {"returned", "raised"}

\* the values func returned, in the order of the invocations
ReturnedValues ==
    LET ok == SelectSeq(trace, LAMBDA e : e.ev = "invoke" /\ e.v # Raise)
    IN  [j \in 1..Len(ok) |-> ok[j].v]

\* number of batches up to k on which func returned
Rank(k) ==
    Cardinality({trace[j].b : j \in {j \in DOMAIN trace :
        trace[j].ev = "invoke" /\ trace[j].v # Raise /\ trace[j].b <= k}})

\* positions of the events of kind e
AtAll(e) == {j \in DOMAIN trace : trace[j].ev = e}

Max(S) == CHOOSE x \in S : \A y \in S : y <= x

----------------------------------------------------------------------------
(* C1: a batch whose attempts all fail never makes process raise: process  *)
(* raises only out of the write of the result of a batch that succeeded,   *)
(* and goes on to the next batch after a batch that exhausted its attempts *)
C1_PermanentFailureNeverRaises ==
    /\ pc = "raised" => success
    /\ \A k \in Started : Exhausted(k) /\ pc = "raised" => k < next_i

(* C2: with save_to_file set, once the body of a batch is over the batches *)
(* written to a file are exactly the batches on which func returned, each  *)
(* written once                                                            *)
C2_SavedExactlySuccesses ==
    (save_to_file # None /\ pc \in {"gen", "returned"}) =>
        \A k \in Started :
            /\ Succeeded(k) <=> At("save", k) # {}
            /\ Cardinality(At("save", k)) <= 1

(* C3: if every attempt on batch k fails, batch k adds no entry to results *)
(* and the run still ends by returning the values func returned for the    *)
(* other batches, in order, whether or not save_to_file is set (a run      *)
(* ended by a failed file write apart)                                     *)
C3_OthersStillSucceed ==
    (Terminated /\ err # "OSError" /\ \E k \in Started : Exhausted(k)) =>
        /\ pc = "returned"
        /\ pos = Len(iterable)
        /\ results = ReturnedValues
        /\ Len(results) = Cardinality({m \in Started : ~Exhausted(m)})

(* C4: if every attempt on batch k fails, func is invoked exactly          *)
(* retries + 1 times on batch k, and "Batch k failed" is reported exactly  *)
(* once, after the last of these invocations and before any invocation on  *)
(* batch k + 1                                                             *)
C4_ExhaustedAttemptsAndReport ==
    LET invokes == AtAll("invoke")
        failed == AtAll("failed")
    IN  \A k \in Started :
        LET inv == {j \in invokes : trace[j].b = k}
            fl == {j \in failed : trace[j].b = k}
            exhausted == LoopOver(k) /\ \A j \in inv : trace[j].v = Raise
        IN  /\ Cardinality(fl) <= 1
            /\ fl # {} => exhausted
            /\ exhausted =>
                /\ Cardinality(inv) = retries + 1
                /\ (k < next_i \/ pc # "check") =>
                    /\ Cardinality(fl) = 1
                    /\ \A f \in fl :
                        /\ \A j \in inv : j < f
                        /\ \A j \in invokes : trace[j].b = k + 1 => f < j

C4_Witness ==
    \E k \in Started :
        /\ Exhausted(k)
        /\ retries >= 1
        /\ Invokes(k + 1) # {}
        /\ At("failed", k) # {}

(* C5: if func fails on the first attempt on batch k and returns v on the  *)
(* second, exactly one sleep happens for batch k, func is invoked exactly  *)
(* twice on it, v is the one entry of results for batch k, and "Batch k    *)
(* failed" is never reported                                               *)
FailThenReturn(k) ==
    /\ LoopOver(k)
    /\ LET inv == Invokes(k)
       IN  \E j1, j2 \in inv :
            /\ j1 < j2
            /\ trace[j1].n = 1 /\ trace[j1].v = Raise
            /\ trace[j2].n = 2 /\ trace[j2].v # Raise

C5_FailOnceThenSucceed ==
    LET invokes == AtAll("invoke")
    IN  \A k \in Started :
        LET inv == {j \in invokes : trace[j].b = k}
            ret == {j \in inv : trace[j].v # Raise}
            r == Rank(k)
            failThenReturn ==
                /\ LoopOver(k)
                /\ \E j1, j2 \in inv :
                    /\ j1 < j2
                    /\ trace[j1].n = 1 /\ trace[j1].v = Raise
                    /\ trace[j2].n = 2 /\ trace[j2].v # Raise
        IN  failThenReturn =>
                /\ retries >= 1
                /\ Cardinality(At("sleep", k)) = 1
                /\ Cardinality(inv) = 2
                /\ Cardinality(ret) = 1
                /\ Len(results) >= r
                /\ \A j \in ret : results[r] = trace[j].v
                /\ Len(results) = Rank(next_i)
                /\ At("failed", k) = {}

C5_Witness ==
    \E k \in Started :
        /\ FailThenReturn(k)
        /\ BodyOver(k)
        /\ k >= 2
        /\ Exhausted(k - 1)

(* C6: with batch_size > 0, get_batches yields ceil(L / batch_size)        *)
(* batches; every batch but the last has batch_size items, the last has    *)
(* L mod batch_size items if that is not 0 and batch_size otherwise; no    *)
(* batch is empty; the batches put end to end are the input; and an empty  *)
(* input yields no batch, no invocation of func and an empty results       *)
Yielded ==
    LET ys == SelectSeq(trace, LAMBDA e : e.ev = "yield")
    IN  [j \in 1..Len(ys) |-> ys[j].items]

RECURSIVE Flatten(_)
Flatten(ss) == IF ss = <<>> THEN <<>> ELSE Head(ss) \o Flatten(Tail(ss))

CeilDiv(a, b) == (a + b - 1) \div b

\* the items the generator has pulled and not yet yielded
Held == IF genpc = "tail" THEN <<>> ELSE batch

C6_BatchesPartitionInput ==
    batch_size > 0 =>
        LET L == Len(iterable)
            B == Yielded
        IN  /\ \A j \in DOMAIN B : B[j] # <<>>
            /\ \A j \in DOMAIN B : j < Len(B) => Len(B[j]) = batch_size
            /\ Flatten(B) \o Held = SubSeq(iterable, 1, pos)
            /\ Len(Held) < batch_size
            /\ pc = "returned" =>
                /\ Len(B) = CeilDiv(L, batch_size)
                /\ Flatten(B) = iterable
                /\ L > 0 => Len(B[Len(B)]) =
                        IF L % batch_size # 0 THEN L % batch_size ELSE batch_size
            /\ L = 0 =>
                /\ B = <<>>
                /\ \A j \in DOMAIN trace : trace[j].ev # "invoke"
                /\ results = <<>>

C6_Witness ==
    /\ pc = "returned"
    /\ batch_size > 1
    /\ Len(iterable) % batch_size # 0
    /\ Len(Yielded) >= 2

(* C7: if func returns on every invocation, the results process returns    *)
(* have one entry per batch, entry k is the value func returned for batch  *)
(* k, func was invoked once per batch and no sleep happened                *)
AllReturned == \A j \in DOMAIN trace : trace[j].ev = "invoke" => trace[j].v # Raise

C7_AllSucceed ==
    (pc = "returned" /\ AllReturned) =>
        /\ Len(results) = Len(Yielded)
        /\ \A k \in 1..Len(Yielded) :
            /\ Cardinality(Invokes(k)) = 1
            /\ \A j \in Invokes(k) : results[k] = trace[j].v
        /\ \A j \in DOMAIN trace : trace[j].ev # "sleep"

C7_Witness ==
    /\ pc = "returned"
    /\ AllReturned
    /\ retries >= 1
    /\ Len(results) >= 2
    /\ results[1] # results[2]

(* C8: in every state, results is the list of the values func returned so  *)
(* far, in increasing batch order, one entry per batch on which func       *)
(* returned and none for the others                                        *)
C8_ResultsAreSuccessesInOrder ==
    LET ok == SelectSeq(trace, LAMBDA e : e.ev = "invoke" /\ e.v # Raise)
    IN  /\ results = [j \in 1..Len(ok) |-> ok[j].v]
        /\ Len(results) = Cardinality({ok[j].b : j \in 1..Len(ok)})
        /\ \A j \in 1..Len(ok) : ok[j].b \in Started
        /\ \A j \in 1..Len(ok) - 1 : ok[j].b < ok[j + 1].b

C8_Witness ==
    /\ Len(results) = 2
    /\ next_i >= 3
    /\ Succeeded(1)
    /\ Exhausted(2)
    /\ Succeeded(3)

(* C9: with save_to_file set, the value func returned for batch k is       *)
(* written right after that invocation, before any item of batch k + 1 is  *)
(* pulled, to the file numbered k (the 1-based position of the batch among *)
(* all batches), and that file holds exactly that value                    *)
C9_SaveRightAfterSuccess ==
    save_to_file # None =>
        \A k \in Started : \A j \in Returns(k) :
            /\ j = Len(trace) => (pc = "check" /\ next_i = k)
            /\ j < Len(trace) =>
                /\ trace[j + 1].ev \in {"save", "save_error"}
                /\ trace[j + 1].b = k
                /\ trace[j + 1].v = trace[j].v
            /\ BodyOver(k) =>
                /\ <<BatchFile(k), trace[j].v>> \in files
                /\ Cardinality({f \in files : f[1] = BatchFile(k)}) = 1

C9_Witness ==
    /\ save_to_file # None
    /\ Succeeded(1)
    /\ Exhausted(2)
    /\ Succeeded(3)
    /\ BodyOver(3)
    /\ At("save", 3) # {}

(* C10: the attempts are counted per batch: func is invoked at most        *)
(* retries + 1 times on a batch, the attempt numbers of every batch start  *)
(* again at 1, and a batch is given up only after retries + 1 invocations, *)
(* whatever happened to the batches before it                              *)
C10_RetryBudgetPerBatch ==
    LET invokes == AtAll("invoke")
    IN  \A k \in Started :
        LET inv == {j \in invokes : trace[j].b = k}
            c == Cardinality(inv)
        IN  /\ c <= retries + 1
            /\ {trace[j].n : j \in inv} = 1..c
            /\ (k = next_i /\ pc = "attempt") => attempt = c
            /\ (LoopOver(k) /\ \A j \in inv : trace[j].v = Raise) =>
                    c = retries + 1

C10_Witness ==
    \E k \in Started :
        /\ k >= 2
        /\ retries >= 1
        /\ Exhausted(k - 1)
        /\ Exhausted(k)

(* C11: the two ways of running are equivalent: the wrapper made by        *)
(* batch_process runs process on a processor that has exactly the fields   *)
(* a direct construction from the same options has, so the invocations,    *)
(* sleeps, reports and file writes of the run follow the options the       *)
(* caller wrote in either style                                            *)
C11_StylesEquivalent ==
    /\ <<iterable, batch_size, progress, save_to_file, retries, retry_delay>>
        = <<opts.iterable, opts.batch_size, opts.progress, opts.save_to_file,
            opts.retries, opts.retry_delay>>
    /\ \A j \in DOMAIN trace :
        /\ trace[j].ev = "sleep" => trace[j].n = opts.retry_delay
        /\ trace[j].ev = "invoke" => trace[j].n <= opts.retries + 1
        /\ trace[j].ev = "failed" => trace[j].n = opts.retries
        /\ trace[j].ev = "save" => opts.save_to_file # None
    /\ bar_n = IF opts.progress THEN next_i ELSE 0

C11_Witness ==
    /\ style = "decorator"
    /\ pc = "returned"
    /\ opts.retries >= 1
    /\ opts.progress
    /\ \E k \in Started : Exhausted(k)
    /\ \E k \in Started : At("save", k) # {}

(* C12: a batch_size <= 0 is rejected before anything is done: no item is  *)
(* pulled from the source, no batch is produced, func is not invoked and   *)
(* process does not return normally                                        *)
C12_NonPositiveSizeRejected ==
    batch_size <= 0 =>
        /\ pos = 0
        /\ next_i = 0
        /\ \A j \in DOMAIN trace : trace[j].ev # "invoke"
        /\ pc # "returned"

(* C20: with batch_size <= 0 and a source that is not empty, get_batches   *)
(* does not loop forever: it pulls every item of the source without        *)
(* yielding, then yields one batch holding all the items in input order,   *)
(* and func is invoked on that one batch only                              *)
C20_Safety ==
    (batch_size <= 0 /\ Len(iterable) > 0) =>
        /\ next_i <= 1
        /\ next_i = 0 =>
            /\ pc \in {"init", "gen"}
            /\ batch = SubSeq(iterable, 1, pos)
        /\ next_i = 1 =>
            /\ pos = Len(iterable)
            /\ cur = iterable
            /\ Yielded = <<iterable>>
        /\ \A j \in DOMAIN trace : trace[j].ev = "invoke" => trace[j].b = 1

C20_OneBatchOfEverything ==
    /\ []C20_Safety
    /\ (batch_size <= 0 /\ Len(iterable) > 0) ~> (next_i = 1 /\ cur = iterable)

C20_Witness ==
    /\ batch_size <= 0
    /\ Len(iterable) > batch_size + 2
    /\ pc = "returned"
    /\ Len(results) = 1

(* C13: the files written are determined by the configuration and the      *)
(* values func returned: when every invocation returned, the files are     *)
(* exactly one per batch handled, named by save_to_file and the batch      *)
(* number and holding the value returned for that batch, so two runs with  *)
(* the same configuration, input and values write the same files           *)
C13_FilesDeterminedByResults ==
    (save_to_file # None /\ AllReturned /\ pc \in {"gen", "returned"}) =>
        /\ Len(results) = next_i
        /\ files = {<<BatchFile(k), results[k]>> : k \in 1..Len(results)}
        /\ Cardinality(files) = next_i

C13_Witness ==
    /\ save_to_file # None
    /\ AllReturned
    /\ pc = "returned"
    /\ Cardinality(files) >= 2
    /\ results[1] # results[2]

(* C14: with batch_size > 0 a run ends by returning: it has then handled   *)
(* all ceil(L / batch_size) batches with at most ceil(L / batch_size) *    *)
(* (retries + 1) invocations of func and has printed "Processing           *)
(* complete." last (a run ended by a failed file write apart)              *)
C14_RunEndsByReturning ==
    (batch_size > 0 /\ Terminated /\ err # "OSError") =>
        LET n == CeilDiv(Len(iterable), batch_size)
        IN  /\ pc = "returned"
            /\ next_i = n
            /\ Cardinality({j \in DOMAIN trace : trace[j].ev = "invoke"})
                    <= n * (retries + 1)
            /\ trace[Len(trace)].ev = "complete"

(* C15, as claimed: with save_to_file set, every batch that exhausted its  *)
(* attempts still gets a file written for its number, also when no batch   *)
(* before it succeeded (a run ended by a failed file write apart)          *)
PastBody(k) == k < next_i \/ (k = next_i /\ pc \notin {"attempt", "check"})

LastReturnBefore(k) ==
    Max({j \in DOMAIN trace :
            trace[j].ev = "invoke" /\ trace[j].v # Raise /\ trace[j].b < k})

C16_OneSleepPerFailure ==
    /\ \A j \in DOMAIN trace :
        /\ (trace[j].ev = "invoke" /\ trace[j].v = Raise) =>
            /\ j + 2 <= Len(trace)
            /\ trace[j + 1].ev = "error" /\ trace[j + 1].b = trace[j].b
            /\ trace[j + 2].ev = "sleep" /\ trace[j + 2].b = trace[j].b
        /\ trace[j].ev = "sleep" =>
            /\ trace[j].n = retry_delay
            /\ j > 2
            /\ trace[j - 2].ev = "invoke" /\ trace[j - 2].v = Raise
        /\ trace[j].ev = "failed" => trace[j - 1].ev = "sleep"
    /\ LET invokes == AtAll("invoke")
           sleeps == AtAll("sleep")
       IN  \A k \in Started :
        LET inv == {j \in invokes : trace[j].b = k}
            sl == {j \in sleeps : trace[j].b = k}
        IN  /\ Cardinality(sl) = Cardinality({j \in inv : trace[j].v = Raise})
            /\ (LoopOver(k) /\ \A j \in inv : trace[j].v = Raise) =>
                    Cardinality(sl) = retries + 1

C16_Witness ==
    \E k \in Started :
        /\ retries >= 1
        /\ Exhausted(k)
        /\ At("failed", k) # {}
        /\ Succeeded(k + 1)

(* C17: the batches are handled one at a time in order: the batch numbers  *)
(* of successive invocations of func never decrease, an invocation that    *)
(* returned is the last one on its batch, and func moves on to a batch     *)
(* only from the batch just before it, after that one succeeded or used    *)
(* all its retries + 1 attempts                                            *)
C17_OneBatchAtATimeInOrder ==
    LET inv == SelectSeq(trace, LAMBDA e : e.ev = "invoke")
    IN  /\ \A a \in 1..Len(inv) - 1 :
            /\ inv[a + 1].b >= inv[a].b
            /\ inv[a].v # Raise => inv[a + 1].b > inv[a].b
            /\ inv[a + 1].b > inv[a].b =>
                /\ inv[a + 1].b = inv[a].b + 1
                /\ inv[a].v # Raise \/ inv[a].n = retries + 1
        /\ Len(inv) > 0 => inv[1].b = 1
        /\ pc = "attempt" => ~success

C17_Witness ==
    /\ retries >= 1
    /\ Exhausted(1)
    /\ FailThenReturn(2)
    /\ Invokes(3) # {}

(* C18: the generator is lazy: with batch_size > 0, while func works on    *)
(* batch number k exactly min(k * batch_size, L) items have been pulled    *)
(* from the source, and the generator never holds more than batch_size     *)
(* items it has pulled and not yet yielded                                 *)
C18_LazyBatcher ==
    batch_size > 0 =>
        /\ Len(Held) <= batch_size
        /\ pos = Len(Flatten(Yielded)) + Len(Held)
        /\ pc \in {"attempt", "check"} =>
            pos = IF next_i * batch_size <= Len(iterable)
                  THEN next_i * batch_size ELSE Len(iterable)

C18_Witness ==
    /\ batch_size = 2
    /\ Len(iterable) >= 3
    /\ pc = "attempt"
    /\ attempt = 0
    /\ next_i = 1
    /\ pos = 2

(* C19: if the write of the file of a batch on which func returned fails,  *)
(* the failure is reported and the run still ends by returning results     *)
(* with the value of that batch in it                                      *)
C19_WriteFailureKeepsResult ==
    \A j \in DOMAIN trace :
        (trace[j].ev = "save_error" /\ Succeeded(trace[j].b)) =>
            /\ err = "OSError"
            /\ Len(results) >= Rank(trace[j].b)
            /\ results[Rank(trace[j].b)] = trace[j].v
            /\ Terminated => pc = "returned"

====
